---- MODULE Spec2Model ----
(***************************************************************************)
(* Order fulfillment pipeline of ContractFabrico: the order store, the     *)
(* Stripe webhook handler with its fulfillment steps, the admin refund and *)
(* the expired-order cleanup, as the backend implements them.              *)
(*                                                                         *)
(* Every await of a handler is a step of its own, so that handlers         *)
(* interleave exactly where the Node event loop lets them interleave; the  *)
(* synchronous code between two awaits is one atomic step.                 *)
(***************************************************************************)
EXTENDS Integers, Sequences, FiniteSets, TLC

\* ---------------------------------------------------------------- bounds
MaxOrders == 1
MaxRequests == 2
MaxEvents == 2
MaxTime == 8
MaxRefunds == 1
MaxCustomerRequests == 1
MaxRefundCalls == 2
MaxLookups == 2

\* ------------------------------------------------------ program constants
\* downloadExpiry.setDate(downloadExpiry.getDate() + 7), in days
DownloadWindow == 7

\* ------------------------------------------------------------ input domains
\* template.price of the template on sale, in cents
TemplatePrice == 999
\* the amounts a checkout session can report, in cents
Prices == {TemplatePrice, 1999}
\* '' (the stripePaymentId of a new order) and a null payment_intent
NoPayment == 0
PaymentIds == {1, 2}
\* an absent metadata.orderId
NoOrderId == 0
\* an id that names no row of the order table
UnknownOrderId == MaxOrders + 1
\* null pdfUrl / docxUrl
NoUrl == <<>>

\* the address given at checkout and the address of somebody else
CustomerEmail == "alice@example.com"
Emails == {CustomerEmail, "mallory@example.com"}
\* an absent email in the body of a resend request
NoEmail == ""

SigMissing == "missing"
SigInvalid == "invalid"
SigValid == "valid"

EvCompleted == "checkout.session.completed"
EvExpired == "checkout.session.expired"
EvSucceeded == "payment_intent.succeeded"
EvPaymentFailed == "payment_intent.payment_failed"
EvOther == "other"

VARIABLES
    now,        \* the clock (new Date()), in days
    orders,     \* the order table: a sequence, the order id is the index
    storage,    \* keys of the objects held by the bucket
    reqs,       \* the webhook requests, one slot per delivery
    emails,     \* confirmation emails handed to SendGrid
    refunds,    \* the admin refund calls, one slot per call
    gateway,    \* refunds created at Stripe
    sweep,      \* the cleanupExpiredOrders run
    cust,       \* the customer requests to /api/orders, one slot per request
    templates,  \* the template row and the cache of the TemplateService
    checkout,   \* the create-checkout-session requests, one slot per request
    lookups     \* the GET /api/templates/:id requests, one slot per request

vars == <<now, orders, storage, reqs, emails, refunds, gateway, sweep, cust,
          templates, checkout, lookups>>

OrderIds == 1..Len(orders)
ReqIds == 1..MaxRequests
RefundIds == 1..MaxRefunds
CustIds == 1..MaxCustomerRequests
CheckoutIds == 1..MaxOrders
LookupIds == 1..MaxLookups

\* ------------------------------------------------------------ order store

\* prisma.order.create of createPendingOrder: a pending order whose
\* downloadExpiry is already creation time + 7 days
NewOrder(price, email, time) ==
    [ status          |-> "pending",
      customerEmail   |-> email,
      stripePaymentId |-> NoPayment,
      amount          |-> price,
      pdfUrl          |-> NoUrl,
      docxUrl         |-> NoUrl,
      downloadExpiry  |-> time + DownloadWindow,
      createdAt       |-> time ]

\* updateOrderStatus with stripePaymentId and downloadExpiry also written
\* (a faulty variant: the transition restarts the download window)
UpdateOrderStatusResetsExpiry(order, status, stripePaymentId, amount) ==
    [order EXCEPT !.status = status,
                  !.stripePaymentId = IF stripePaymentId # NoPayment
                                      THEN stripePaymentId ELSE @,
                  !.amount = IF amount # 0 THEN amount ELSE @,
                  !.downloadExpiry = IF status = "paid"
                                     THEN now + DownloadWindow ELSE @]

\* The row written by updateOrderStatus: status always, stripePaymentId and
\* amount when the caller passed a truthy value.  The update is keyed on the
\* id alone: the current status is not part of the where clause.
UpdateOrderStatus(order, status, stripePaymentId, amount) ==
    [order EXCEPT !.status = status,
                  !.stripePaymentId = IF stripePaymentId # NoPayment
                                      THEN stripePaymentId ELSE @,
                  !.amount = IF amount # 0 THEN amount ELSE @]

\* The row written by updateOrderDocuments
UpdateOrderDocuments(order, pdfUrl, docxUrl) ==
    [order EXCEPT !.pdfUrl = pdfUrl, !.docxUrl = docxUrl]

\* ------------------------------------------------------------ object store

\* storage.generateFileKey(`documents/${order.id}`, `${order.id}.ext`):
\* documents/<order>/<date>/<random>.<ext>; the random part is fresh per call
GenerateFileKey(oid, rand, ext) ==
    <<"documents", oid, "date", <<rand, ext>>>>

\* s3.getSignedUrl('getObject', ...): the object URL followed by the query
\* that carries the signature
GetSignedUrl(key) ==
    <<[key |-> key, query |-> "X-Amz-Signature"]>>

\* ---------------------------------------------------------------- webhook

\* session.amount_total ? session.amount_total / 100 : 0 (amounts in cents
\* on both sides; a price with two decimals survives round(x*100)/100)
SessionAmount(amountTotal) ==
    IF amountTotal # 0 THEN amountTotal ELSE 0

IdleReq ==
    [ pc          |-> "idle",
      sig         |-> SigMissing,
      eventId     |-> 0,
      type        |-> EvOther,
      orderId     |-> NoOrderId,
      pi          |-> NoPayment,
      amountTotal |-> 0,
      response    |-> 0,
      pdf         |-> NoUrl,
      docx        |-> NoUrl,
      wasStatus   |-> "none",
      generated   |-> FALSE,
      emailed     |-> FALSE ]

MetaOrderIds == {NoOrderId, UnknownOrderId} \cup OrderIds

\* The events the provider can sign under event id `id`: a completed session
\* of an order with any payment and amount, a completed session whose
\* metadata names no order of the table, an expired session, and the event
\* types that carry no order
Events(id) ==
    [ id : {id}, type : {EvCompleted}, orderId : OrderIds,
      pi : PaymentIds, amountTotal : Prices \cup {0} ]
    \cup
    [ id : {id}, type : {EvCompleted}, orderId : {NoOrderId, UnknownOrderId},
      pi : {1}, amountTotal : {0} ]
    \cup
    [ id : {id}, type : {EvExpired}, orderId : MetaOrderIds,
      pi : {NoPayment}, amountTotal : {0} ]
    \cup
    [ id : {id}, type : {EvSucceeded, EvPaymentFailed, EvOther},
      orderId : {NoOrderId}, pi : {NoPayment}, amountTotal : {0} ]

\* What a sender without the webhook secret posts: a completed session for
\* an order, under an event id of its choosing
ForgedEvents ==
    [ id : {1}, type : {EvCompleted}, orderId : OrderIds \cup {UnknownOrderId},
      pi : {1}, amountTotal : {0} ]

\* Event ids already delivered with a valid signature
SeenEventIds ==
    {reqs[q].eventId : q \in {p \in ReqIds : reqs[p].pc # "idle" /\ reqs[p].sig = SigValid}}

\* The provider numbers its events in order; a delivery carries an event
\* that was delivered before or the next new one
DeliverableEventIds ==
    {id \in 1..MaxEvents : id <= Cardinality(SeenEventIds) + 1}


\* What the provider has signed under an event id does not change between
\* deliveries (a forged request may carry anything)
SameEventSameContent(r, ev) ==
    \A q \in ReqIds :
        (q # r /\ reqs[q].pc # "idle" /\ reqs[q].sig = SigValid
              /\ reqs[q].eventId = ev.id)
        => /\ reqs[q].type = ev.type
           /\ reqs[q].orderId = ev.orderId
           /\ reqs[q].pi = ev.pi
           /\ reqs[q].amountTotal = ev.amountTotal

Received(sig, ev) ==
    [IdleReq EXCEPT !.pc = "received", !.sig = sig, !.eventId = ev.id,
                    !.type = ev.type, !.orderId = ev.orderId, !.pi = ev.pi,
                    !.amountTotal = ev.amountTotal]

Respond(req, code) ==
    [req EXCEPT !.pc = "done", !.response = code]

\* router.post('/webhook') with the signature check removed (a faulty
\* variant: the event is dispatched whatever the signature)
WebhookEntryUnverified(req) ==
    IF req.type = EvCompleted
    THEN IF req.orderId = NoOrderId
         THEN Respond(req, 400)
         ELSE [req EXCEPT !.pc = "updateStatus"]
    ELSE IF req.type = EvExpired
    THEN IF req.orderId = NoOrderId
         THEN Respond(req, 200)
         ELSE [req EXCEPT !.pc = "expire"]
    ELSE Respond(req, 200)

\* router.post('/webhook') up to the first await: the signature header, then
\* stripe.webhooks.constructEvent, then the switch on event.type.  A handler
\* that returns without awaiting lets the route answer { received: true };
\* a throw of constructEvent or of a handler ends in the one catch block,
\* which answers 400.
WebhookEntry(req) ==
    IF req.sig = SigMissing THEN Respond(req, 400)
    ELSE IF req.sig = SigInvalid THEN Respond(req, 400)
    ELSE IF req.type = EvCompleted
    THEN \* handleCheckoutSessionCompleted: missing metadata throws
         IF req.orderId = NoOrderId
         THEN Respond(req, 400)
         ELSE [req EXCEPT !.pc = "updateStatus"]
    ELSE IF req.type = EvExpired
    THEN \* handleCheckoutSessionExpired: if (orderId) { ... }
         IF req.orderId = NoOrderId
         THEN Respond(req, 200)
         ELSE [req EXCEPT !.pc = "expire"]
    ELSE \* payment_intent.succeeded, payment_intent.payment_failed and the
         \* default case only log
         Respond(req, 200)

\* A delivery arrives and runs to its first await
WebhookReceive(r) ==
    /\ reqs[r].pc = "idle"
    /\ \A q \in 1..(r - 1) : reqs[q].pc # "idle"
    /\ \/ \E id \in DeliverableEventIds : \E ev \in Events(id) :
            /\ SameEventSameContent(r, ev)
            /\ reqs' = [reqs EXCEPT ![r] = WebhookEntry(Received(SigValid, ev))]
       \/ \E sig \in {SigMissing, SigInvalid}, ev \in ForgedEvents :
            reqs' = [reqs EXCEPT ![r] = WebhookEntry(Received(sig, ev))]
    /\ UNCHANGED <<now, orders, storage, emails, refunds, gateway, sweep, cust, templates, checkout, lookups>>

\* The events of the sessions that create-checkout-session opened: the
\* session of an order completes with the payment of that session and the
\* amount it was created with, or expires
SessionEvents(id) ==
    [ id : {id}, type : {EvCompleted}, orderId : OrderIds,
      pi : {1}, amountTotal : {TemplatePrice} ]
    \cup
    [ id : {id}, type : {EvExpired}, orderId : OrderIds,
      pi : {NoPayment}, amountTotal : {0} ]

\* A delivery of a session event arrives, signed by the provider, and runs
\* to its first await
SessionEventReceive(r) ==
    /\ reqs[r].pc = "idle"
    /\ \A q \in 1..(r - 1) : reqs[q].pc # "idle"
    /\ \E id \in DeliverableEventIds : \E ev \in SessionEvents(id) :
            /\ SameEventSameContent(r, ev)
            /\ reqs' = [reqs EXCEPT ![r] = WebhookEntry(Received(SigValid, ev))]
    /\ UNCHANGED <<now, orders, storage, emails, refunds, gateway, sweep, cust, templates, checkout, lookups>>

\* handleCheckoutSessionCompleted: await orderService.updateOrderStatus(
\*   orderId, 'paid', { stripePaymentId: payment_intent, amount })
CompletedUpdateStatus(r) ==
    /\ reqs[r].pc = "updateStatus"
    /\ LET oid == reqs[r].orderId IN
       IF oid \in OrderIds
       THEN /\ orders' = [orders EXCEPT ![oid] =
                    UpdateOrderStatus(@, "paid", reqs[r].pi,
                                      SessionAmount(reqs[r].amountTotal))]
            /\ reqs' = [reqs EXCEPT ![r].pc = "generatePdf",
                                    ![r].wasStatus = orders[oid].status]
       ELSE \* record to update not found: updateOrderStatus throws
            /\ reqs' = [reqs EXCEPT ![r] = Respond(@, 400)]
            /\ UNCHANGED orders
    /\ UNCHANGED <<now, storage, emails, refunds, gateway, sweep, cust, templates, checkout, lookups>>

\* generateDocuments whose failure marks the order failed (a faulty variant:
\* the handler undoes the payment when rendering or upload fails)
CompletedGeneratePdfRollsBack(r) ==
    /\ reqs[r].pc = "generatePdf"
    /\ \/ /\ reqs' = [reqs EXCEPT ![r] = Respond([@ EXCEPT !.generated = TRUE], 400)]
          /\ orders' = [orders EXCEPT ![reqs[r].orderId] =
                          UpdateOrderStatus(@, "failed", NoPayment, 0)]
          /\ UNCHANGED storage
       \/ LET key == GenerateFileKey(reqs[r].orderId, r, "pdf") IN
          /\ storage' = storage \cup {key}
          /\ reqs' = [reqs EXCEPT ![r].pc = "generateDocx",
                                  ![r].generated = TRUE,
                                  ![r].pdf = GetSignedUrl(key)]
          /\ UNCHANGED orders
    /\ UNCHANGED <<now, emails, refunds, gateway, sweep, cust, templates, checkout, lookups>>

\* documentService.generateDocuments, first half: template lookup, render,
\* generatePdf, uploadFile of the PDF
CompletedGeneratePdf(r) ==
    /\ reqs[r].pc = "generatePdf"
    /\ \/ \* the template is gone, the render or the upload fails
          /\ reqs' = [reqs EXCEPT ![r] = Respond([@ EXCEPT !.generated = TRUE], 400)]
          /\ UNCHANGED storage
       \/ LET key == GenerateFileKey(reqs[r].orderId, r, "pdf") IN
          /\ storage' = storage \cup {key}
          /\ reqs' = [reqs EXCEPT ![r].pc = "generateDocx",
                                  ![r].generated = TRUE,
                                  ![r].pdf = GetSignedUrl(key)]
    /\ UNCHANGED <<now, orders, emails, refunds, gateway, sweep, cust, templates, checkout, lookups>>

\* documentService.generateDocuments, second half: uploadFile of the DOCX
CompletedGenerateDocx(r) ==
    /\ reqs[r].pc = "generateDocx"
    /\ \/ /\ reqs' = [reqs EXCEPT ![r] = Respond(@, 400)]
          /\ UNCHANGED storage
       \/ LET key == GenerateFileKey(reqs[r].orderId, r, "docx") IN
          /\ storage' = storage \cup {key}
          /\ reqs' = [reqs EXCEPT ![r].pc = "updateDocuments",
                                  ![r].docx = GetSignedUrl(key)]
    /\ UNCHANGED <<now, orders, emails, refunds, gateway, sweep, cust, templates, checkout, lookups>>

\* await orderService.updateOrderDocuments(orderId, documents)
CompletedUpdateDocuments(r) ==
    /\ reqs[r].pc = "updateDocuments"
    /\ orders' = [orders EXCEPT ![reqs[r].orderId] =
                    UpdateOrderDocuments(@, reqs[r].pdf, reqs[r].docx)]
    /\ reqs' = [reqs EXCEPT ![r].pc = "sendEmail"]
    /\ UNCHANGED <<now, storage, emails, refunds, gateway, sweep, cust, templates, checkout, lookups>>

\* sendOrderConfirmation whose failure clears the recorded documents (a
\* faulty variant: a failed notification undoes the fulfillment)
CompletedSendEmailRollsBack(r) ==
    /\ reqs[r].pc = "sendEmail"
    /\ \/ /\ reqs' = [reqs EXCEPT ![r] = Respond(@, 400)]
          /\ orders' = [orders EXCEPT ![reqs[r].orderId] =
                          UpdateOrderDocuments(@, NoUrl, NoUrl)]
          /\ UNCHANGED emails
       \/ /\ emails' = emails \cup
                {[ orderId |-> reqs[r].orderId, by |-> <<"webhook", r>>,
                   pdfUrl |-> reqs[r].pdf, docxUrl |-> reqs[r].docx ]}
          /\ reqs' = [reqs EXCEPT ![r] = Respond([@ EXCEPT !.emailed = TRUE], 200)]
          /\ UNCHANGED orders
    /\ UNCHANGED <<now, storage, refunds, gateway, sweep, cust, templates, checkout, lookups>>

\* await emailService.sendOrderConfirmation(...), then res.json
CompletedSendEmail(r) ==
    /\ reqs[r].pc = "sendEmail"
    /\ \/ \* sgMail.send rejects: sendOrderConfirmation throws
          /\ reqs' = [reqs EXCEPT ![r] = Respond(@, 400)]
          /\ UNCHANGED emails
       \/ /\ emails' = emails \cup
                {[ orderId |-> reqs[r].orderId, by |-> <<"webhook", r>>,
                   pdfUrl |-> reqs[r].pdf, docxUrl |-> reqs[r].docx ]}
          /\ reqs' = [reqs EXCEPT ![r] = Respond([@ EXCEPT !.emailed = TRUE], 200)]
    /\ UNCHANGED <<now, orders, storage, refunds, gateway, sweep, cust, templates, checkout, lookups>>

\* handleCheckoutSessionExpired: await orderService.updateOrderStatus(
\*   orderId, 'failed'); its catch swallows a failed update
ExpiredUpdateStatus(r) ==
    /\ reqs[r].pc = "expire"
    /\ LET oid == reqs[r].orderId IN
       IF oid \in OrderIds
       THEN /\ orders' = [orders EXCEPT ![oid] =
                    UpdateOrderStatus(@, "failed", NoPayment, 0)]
            /\ reqs' = [reqs EXCEPT ![r] =
                    Respond([@ EXCEPT !.wasStatus = orders[oid].status], 200)]
       ELSE /\ reqs' = [reqs EXCEPT ![r] = Respond(@, 200)]
            /\ UNCHANGED orders
    /\ UNCHANGED <<now, storage, emails, refunds, gateway, sweep, cust, templates, checkout, lookups>>


\* ------------------------------------------------------------------ refund

\* no refundId in the result of a refund call
NoRefundId == 0

IdleRefund ==
    [ pc |-> "idle", orderId |-> NoOrderId, stripePaymentId |-> NoPayment,
      amount |-> 0, success |-> FALSE, message |-> "", refundId |-> NoRefundId,
      refundAmount |-> 0 ]

Reject(ref, message) ==
    [ref EXCEPT !.pc = "done", !.success = FALSE, !.message = message]

\* processRefund without its status checks (a faulty variant: every order of
\* the table goes to the gateway)
RefundEntryAnyStatus(ref, oid) ==
    IF oid \notin OrderIds
    THEN Reject([ref EXCEPT !.orderId = oid], "Order not found")
    ELSE [ref EXCEPT !.pc = "gateway", !.orderId = oid,
                     !.stripePaymentId = orders[oid].stripePaymentId,
                     !.amount = orders[oid].amount]

\* AdminService.processRefund up to the gateway call: findUnique, then the
\* status checks on the row that was read
RefundEntry(ref, oid) ==
    IF oid \notin OrderIds
    THEN Reject([ref EXCEPT !.orderId = oid], "Order not found")
    ELSE IF orders[oid].status # "paid"
    THEN Reject([ref EXCEPT !.orderId = oid], "Only paid orders can be refunded")
    ELSE IF orders[oid].status = "refunded"
    THEN Reject([ref EXCEPT !.orderId = oid], "Order has already been refunded")
    ELSE [ref EXCEPT !.pc = "gateway", !.orderId = oid,
                     !.stripePaymentId = orders[oid].stripePaymentId,
                     !.amount = orders[oid].amount]

\* POST /api/admin/orders/:id/refund: the order is read and checked
RefundRead(a) ==
    /\ refunds[a].pc = "idle"
    /\ \A b \in 1..(a - 1) : refunds[b].pc # "idle"
    /\ \E oid \in OrderIds \cup {UnknownOrderId} :
        refunds' = [refunds EXCEPT ![a] = RefundEntry(@, oid)]
    /\ UNCHANGED <<now, orders, storage, reqs, emails, gateway, sweep, cust, templates, checkout, lookups>>

\* processRefund without `if (!refundResult.success) return refundResult` (a
\* faulty variant: the order is updated whatever the gateway answered)
RefundGatewayIgnoresFailure(a) ==
    /\ refunds[a].pc = "gateway"
    /\ \/ /\ refunds' = [refunds EXCEPT ![a].pc = "update"]
          /\ UNCHANGED gateway
       \/ /\ gateway' = gateway \cup
                {[ refundId |-> a, orderId |-> refunds[a].orderId,
                   paymentIntent |-> refunds[a].stripePaymentId,
                   amount |-> refunds[a].amount ]}
          /\ refunds' = [refunds EXCEPT ![a].pc = "update",
                                        ![a].refundId = a,
                                        ![a].refundAmount = refunds[a].amount]
    /\ UNCHANGED <<now, orders, storage, reqs, emails, sweep, cust, templates, checkout, lookups>>

\* paymentService.processRefund: stripe.refunds.create for the payment and
\* the amount that were read; a failure is returned, not thrown
RefundGateway(a) ==
    /\ refunds[a].pc = "gateway"
    /\ \/ /\ refunds' = [refunds EXCEPT ![a] = Reject(@, "gateway error")]
          /\ UNCHANGED gateway
       \/ /\ gateway' = gateway \cup
                {[ refundId |-> a, orderId |-> refunds[a].orderId,
                   paymentIntent |-> refunds[a].stripePaymentId,
                   amount |-> refunds[a].amount ]}
          /\ refunds' = [refunds EXCEPT ![a].pc = "update",
                                        ![a].refundId = a,
                                        ![a].refundAmount = refunds[a].amount]
    /\ UNCHANGED <<now, orders, storage, reqs, emails, sweep, cust, templates, checkout, lookups>>

\* The row written by processRefund after the gateway succeeded
MarkRefunded(order) ==
    [order EXCEPT !.status = "refunded"]

\* prisma.order.update({ where: { id }, data: { status: 'refunded' } })
RefundUpdate(a) ==
    /\ refunds[a].pc = "update"
    /\ orders' = [orders EXCEPT ![refunds[a].orderId] = MarkRefunded(@)]
    /\ refunds' = [refunds EXCEPT ![a].pc = "done", ![a].success = TRUE]
    /\ UNCHANGED <<now, storage, reqs, emails, gateway, sweep, cust, templates, checkout, lookups>>

\* prisma.order.update rejects: the catch of processRefund returns a failure
\* after the gateway has created the refund
RefundUpdateFails(a) ==
    /\ refunds[a].pc = "update"
    /\ refunds' = [refunds EXCEPT ![a] = Reject(@, "Failed to process refund")]
    /\ UNCHANGED <<now, orders, storage, reqs, emails, gateway, sweep, cust, templates, checkout, lookups>>

\* ----------------------------------------------------------------- sweeper

\* order.pdfUrl.split('/').pop(): the last path segment of the stored URL,
\* its query string included
UrlLastSegment(url) ==
    <<url[1].key[4], url[1].query>>

\* `documents/${order.id}/${order.pdfUrl.split('/').pop()}`
KeyFromUrl(oid, url) ==
    <<"documents", oid, UrlLastSegment(url)>>

\* findMany({ where: { downloadExpiry: { lt: new Date() }, status: 'paid' } })
ExpiredOrders ==
    {oid \in OrderIds : /\ orders[oid].downloadExpiry < now
                        /\ orders[oid].status = "paid"}

RECURSIVE RowsOf(_)
RowsOf(ids) ==
    IF ids = {} THEN <<>>
    ELSE LET oid == CHOOSE i \in ids : \A j \in ids : i <= j IN
         <<[ id |-> oid, pdfUrl |-> orders[oid].pdfUrl,
             docxUrl |-> orders[oid].docxUrl ]>> \o RowsOf(ids \ {oid})

IdleSweep == [ pc |-> "idle", rows |-> <<>> ]

\* cleanupExpiredOrders: the query; the loop then works on the rows read here
SweepScan ==
    /\ sweep.pc = "idle"
    /\ sweep' = [ pc |-> IF ExpiredOrders = {} THEN "idle" ELSE "pdf",
                  rows |-> RowsOf(ExpiredOrders) ]
    /\ UNCHANGED <<now, orders, storage, reqs, emails, refunds, gateway, cust, templates, checkout, lookups>>

\* the catch of the loop body: the order is skipped
SweepSkip ==
    [sweep EXCEPT !.rows = Tail(@),
                  !.pc = IF Len(sweep.rows) > 1 THEN "pdf" ELSE "idle"]

\* if (order.pdfUrl) await storage.deleteFile(pdfKey)
SweepDeletePdf ==
    /\ sweep.pc = "pdf"
    /\ LET row == Head(sweep.rows) IN
       \/ /\ row.pdfUrl # NoUrl
          /\ storage' = storage \ {KeyFromUrl(row.id, row.pdfUrl)}
          /\ sweep' = [sweep EXCEPT !.pc = "docx"]
       \/ /\ row.pdfUrl # NoUrl
          /\ sweep' = SweepSkip
          /\ UNCHANGED storage
       \/ /\ row.pdfUrl = NoUrl
          /\ sweep' = [sweep EXCEPT !.pc = "docx"]
          /\ UNCHANGED storage
    /\ UNCHANGED <<now, orders, reqs, emails, refunds, gateway, cust, templates, checkout, lookups>>

\* if (order.docxUrl) await storage.deleteFile(docxKey)
SweepDeleteDocx ==
    /\ sweep.pc = "docx"
    /\ LET row == Head(sweep.rows) IN
       \/ /\ row.docxUrl # NoUrl
          /\ storage' = storage \ {KeyFromUrl(row.id, row.docxUrl)}
          /\ sweep' = [sweep EXCEPT !.pc = "clear"]
       \/ /\ row.docxUrl # NoUrl
          /\ sweep' = SweepSkip
          /\ UNCHANGED storage
       \/ /\ row.docxUrl = NoUrl
          /\ sweep' = [sweep EXCEPT !.pc = "clear"]
          /\ UNCHANGED storage
    /\ UNCHANGED <<now, orders, reqs, emails, refunds, gateway, cust, templates, checkout, lookups>>

\* The row written by the cleanup
ClearDocuments(order) ==
    [order EXCEPT !.pdfUrl = NoUrl, !.docxUrl = NoUrl]

\* prisma.order.update({ data: { pdfUrl: null, docxUrl: null } })
SweepClear ==
    /\ sweep.pc = "clear"
    /\ orders' = [orders EXCEPT ![Head(sweep.rows).id] = ClearDocuments(@)]
    /\ sweep' = SweepSkip
    /\ UNCHANGED <<now, storage, reqs, emails, refunds, gateway, cust, templates, checkout, lookups>>

\* ------------------------------------------------------- customer access

RouteStatus == "GET /:id"
RouteDownload == "GET /:id/download"
RouteResend == "POST /:id/resend-email"

\* A request to the orders router.  `order` is the row the handler read
\* (empty before the read), `links` the result of getDownloadLinks, `data`
\* the data of a success response.  `refunded` records whether a refund of
\* the order had succeeded when the request arrived; no code reads it.
IdleCust ==
    [ pc       |-> "idle",
      route    |-> RouteStatus,
      orderId  |-> NoOrderId,
      email    |-> NoEmail,
      order    |-> <<>>,
      links    |-> <<>>,
      status   |-> 0,
      code     |-> "",
      message  |-> "",
      data     |-> <<>>,
      refunded |-> FALSE ]

\* A refund call for order o has returned success
Refunded(o) ==
    \E a \in DOMAIN refunds :
        refunds[a].pc = "done" /\ refunds[a].success /\ refunds[a].orderId = o

Arrived(route, oid, email) ==
    [IdleCust EXCEPT !.pc = "arrived", !.route = route, !.orderId = oid,
                     !.email = email, !.refunded = Refunded(oid)]

\* res.status(status).json({ success: false, error: { code, message } })
Answer(req, status, code, message) ==
    [req EXCEPT !.pc = "done", !.status = status, !.code = code,
                !.message = message]

\* res.json({ success: true, data })
Success(req, data) ==
    [req EXCEPT !.pc = "done", !.status = 200, !.data = <<data>>]

\* next(error): the global error handler answers 500
InternalError(req, message) ==
    Answer(req, 500, "INTERNAL_ERROR", message)

\* getOrderByIdAndEmail with the address left out of the where clause (a
\* faulty variant: the row is found by its id alone)
GetOrderByIdAlone(oid, email) ==
    IF oid \in OrderIds
    THEN <<orders[oid]>>
    ELSE <<>>

\* orderService.getOrderByIdAndEmail: findFirst({ where: { id, customerEmail
\* } }), null when no row has both
GetOrderByIdAndEmail(oid, email) ==
    IF oid \in OrderIds /\ orders[oid].customerEmail = email
    THEN <<orders[oid]>>
    ELSE <<>>

\* the 404 of the three handlers
OrderNotFound(req) ==
    Answer(req, 404, "ORDER_NOT_FOUND", "Order not found or email does not match")

\* GET /api/orders/:id after the read
StatusEntry(req, found) ==
    IF found = <<>> THEN OrderNotFound(req)
    ELSE Success(req, [ status |-> found[1].status,
                        amount |-> found[1].amount,
                        downloadExpiry |-> found[1].downloadExpiry ])

\* GET /api/orders/:id/download after the read, up to the next await: the
\* checks on the row that was read, in the order of the handler
DownloadEntry(req, found, time) ==
    IF found = <<>> THEN OrderNotFound(req)
    ELSE IF found[1].status # "paid"
    THEN Answer(req, 403, "ORDER_NOT_PAID", "Order is not paid")
    ELSE IF time > found[1].downloadExpiry
    THEN Answer(req, 410, "DOWNLOAD_EXPIRED", "Download links have expired")
    ELSE IF found[1].pdfUrl = NoUrl \/ found[1].docxUrl = NoUrl
    THEN Answer(req, 503, "DOCUMENTS_NOT_READY", "Documents are still being generated")
    ELSE [req EXCEPT !.pc = "links", !.order = found]

\* POST /api/orders/:id/resend-email after the read, up to the next await;
\* resendConfirmationEmail throws on a row without both URLs
ResendEntry(req, found) ==
    IF found = <<>> THEN OrderNotFound(req)
    ELSE IF found[1].status # "paid"
    THEN Answer(req, 403, "ORDER_NOT_PAID", "Can only resend emails for paid orders")
    ELSE IF found[1].pdfUrl = NoUrl \/ found[1].docxUrl = NoUrl
    THEN InternalError(req, "Failed to resend confirmation email")
    ELSE [req EXCEPT !.pc = "links", !.order = found]

\* orderService.getDownloadLinks: the row is read again by id; the keys are
\* derived from the stored URLs and signed.  Empty when it throws.
GetDownloadLinks(oid) ==
    IF oid \notin OrderIds THEN <<>>
    ELSE IF orders[oid].pdfUrl = NoUrl \/ orders[oid].docxUrl = NoUrl THEN <<>>
    ELSE <<[ pdfUrl  |-> GetSignedUrl(KeyFromUrl(oid, orders[oid].pdfUrl)),
             docxUrl |-> GetSignedUrl(KeyFromUrl(oid, orders[oid].docxUrl)) ]>>

\* Math.max(0, order.downloadExpiry.getTime() - new Date().getTime())
RemainingTime(expiry, time) ==
    IF expiry - time > 0 THEN expiry - time ELSE 0

\* A request arrives at GET /api/orders/:id and is answered after the read
StatusRequest(c) ==
    /\ cust[c].pc = "idle"
    /\ \A d \in 1..(c - 1) : cust[d].pc # "idle"
    /\ \E oid \in OrderIds \cup {UnknownOrderId}, email \in Emails :
        cust' = [cust EXCEPT ![c] =
                    StatusEntry(Arrived(RouteStatus, oid, email),
                                GetOrderByIdAndEmail(oid, email))]
    /\ UNCHANGED <<now, orders, storage, reqs, emails, refunds, gateway, sweep, templates, checkout, lookups>>

\* A request arrives at GET /api/orders/:id/download: the read and the checks
DownloadRead(c) ==
    /\ cust[c].pc = "idle"
    /\ \A d \in 1..(c - 1) : cust[d].pc # "idle"
    /\ \E oid \in OrderIds \cup {UnknownOrderId}, email \in Emails :
        cust' = [cust EXCEPT ![c] =
                    DownloadEntry(Arrived(RouteDownload, oid, email),
                                  GetOrderByIdAndEmail(oid, email), now)]
    /\ UNCHANGED <<now, orders, storage, reqs, emails, refunds, gateway, sweep, templates, checkout, lookups>>

\* await orderService.getDownloadLinks(id), then res.json with the URLs and
\* the downloadExpiry of the row read first
DownloadLinks(c) ==
    /\ cust[c].pc = "links"
    /\ cust[c].route = RouteDownload
    /\ LET links == GetDownloadLinks(cust[c].orderId)
           expiry == cust[c].order[1].downloadExpiry IN
       cust' = [cust EXCEPT ![c] =
                  IF links = <<>>
                  THEN InternalError(@, "Failed to generate download links")
                  ELSE Success([@ EXCEPT !.links = links],
                               [ pdfUrl |-> links[1].pdfUrl,
                                 docxUrl |-> links[1].docxUrl,
                                 expiresAt |-> expiry,
                                 remainingTime |-> RemainingTime(expiry, now) ])]
    /\ UNCHANGED <<now, orders, storage, reqs, emails, refunds, gateway, sweep, templates, checkout, lookups>>

\* A request arrives at POST /api/orders/:id/resend-email: the body check,
\* the read and the checks
ResendRead(c) ==
    /\ cust[c].pc = "idle"
    /\ \A d \in 1..(c - 1) : cust[d].pc # "idle"
    /\ \E oid \in OrderIds \cup {UnknownOrderId}, email \in Emails \cup {NoEmail} :
        cust' = [cust EXCEPT ![c] =
                    IF email = NoEmail
                    THEN Answer(Arrived(RouteResend, oid, email), 400,
                                "EMAIL_REQUIRED", "Email address is required")
                    ELSE ResendEntry(Arrived(RouteResend, oid, email),
                                     GetOrderByIdAndEmail(oid, email))]
    /\ UNCHANGED <<now, orders, storage, reqs, emails, refunds, gateway, sweep, templates, checkout, lookups>>

\* resendConfirmationEmail: await this.getDownloadLinks(order.id)
ResendLinks(c) ==
    /\ cust[c].pc = "links"
    /\ cust[c].route = RouteResend
    /\ LET links == GetDownloadLinks(cust[c].orderId) IN
       cust' = [cust EXCEPT ![c] =
                  IF links = <<>>
                  THEN InternalError(@, "Failed to resend confirmation email")
                  ELSE [@ EXCEPT !.pc = "send", !.links = links]]
    /\ UNCHANGED <<now, orders, storage, reqs, emails, refunds, gateway, sweep, templates, checkout, lookups>>

\* await emailService.sendOrderConfirmation({ to, order, documents }), then
\* res.json
ResendSend(c) ==
    /\ cust[c].pc = "send"
    /\ \/ \* sgMail.send rejects
          /\ cust' = [cust EXCEPT ![c] =
                        InternalError(@, "Failed to resend confirmation email")]
          /\ UNCHANGED emails
       \/ /\ emails' = emails \cup
                {[ orderId |-> cust[c].orderId, by |-> <<"resend", c>>,
                   pdfUrl |-> cust[c].links[1].pdfUrl,
                   docxUrl |-> cust[c].links[1].docxUrl ]}
          /\ cust' = [cust EXCEPT ![c] = Success(@, [ sentTo |-> cust[c].email ])]
    /\ UNCHANGED <<now, orders, storage, reqs, refunds, gateway, sweep, templates, checkout, lookups>>

\* ------------------------------------------------------- checkout and clock

\* POST /create-checkout-session: orderService.createPendingOrder stores the
\* order with the price of the template; the Stripe session that the handler
\* creates next writes nothing to the order table
CreatePendingOrder ==
    /\ Len(orders) < MaxOrders
    /\ orders' = Append(orders, NewOrder(TemplatePrice, CustomerEmail, now))
    /\ UNCHANGED <<now, storage, reqs, emails, refunds, gateway, sweep, cust, templates, checkout, lookups>>

\* The instants at which the clock is read: the start, the day after, the
\* end of a download window opened at the start, and the days after it
Instants == {0, 1} \cup DownloadWindow..MaxTime

Tick ==
    /\ \E t \in Instants : t > now /\ now' = t
    /\ UNCHANGED <<orders, storage, reqs, emails, refunds, gateway, sweep, cust, templates, checkout, lookups>>

\* --------------------------------------------------------------- templates

\* CACHE_DURATION = 15 * 60 * 1000 ms, in quarters of an hour
CacheDuration == 1
\* The Date values of the cache are kept in quarters of an hour: a day has 96
QuartersPerDay == 96

\* null: no template
NoTemplate == <<>>

\* The template on sale: its row in the template table (the price), and the
\* two maps of the TemplateService at the key of that template (no entry
\* after construction)
OnSale ==
    [ price |-> TemplatePrice, cache |-> NoTemplate, cacheExpiry |-> <<>> ]

\* isCacheValid(key): expiry ? expiry > new Date() : false
IsCacheValid(t, time) ==
    t.cacheExpiry # <<>> /\ t.cacheExpiry[1] > time * QuartersPerDay

\* this.cache.get(cacheKey) || null
CacheGet(t) ==
    t.cache

\* this.cache.set(cacheKey, template); this.cacheExpiry.set(cacheKey,
\* new Date(Date.now() + this.CACHE_DURATION))
CacheSet(t, template, time) ==
    [t EXCEPT !.cache = template,
              !.cacheExpiry = <<time * QuartersPerDay + CacheDuration>>]

\* incrementDownloads: this.cache.delete(`template_${templateId}`)
CacheDelete(t) ==
    [t EXCEPT !.cache = NoTemplate]

\* clearCache(): this.cache.clear(); this.cacheExpiry.clear()
CacheClear(t) ==
    [t EXCEPT !.cache = NoTemplate, !.cacheExpiry = <<>>]

\* prisma.template.findUnique({ where: { id } }), formatted
FindTemplate(t) ==
    <<[ price |-> t.price ]>>

IdleLookup ==
    [ pc |-> "idle", result |-> NoTemplate ]

\* GET /api/templates/:id calls templateService.getTemplateById: a valid
\* cache key answers from the cache, otherwise the row is read
LookupRead(l) ==
    /\ lookups[l].pc = "idle"
    /\ \A m \in 1..(l - 1) : lookups[m].pc # "idle"
    /\ lookups' = [lookups EXCEPT ![l] =
                     IF IsCacheValid(templates, now)
                     THEN [ pc |-> "done", result |-> CacheGet(templates) ]
                     ELSE [ pc |-> "find", result |-> NoTemplate ]]
    /\ UNCHANGED <<now, orders, storage, reqs, emails, refunds, gateway, sweep, cust, templates, checkout>>

\* getTemplateById after findUnique: the row is cached and returned
LookupFind(l) ==
    /\ lookups[l].pc = "find"
    /\ lookups' = [lookups EXCEPT ![l] =
                     [ pc |-> "done", result |-> FindTemplate(templates) ]]
    /\ templates' = CacheSet(templates, FindTemplate(templates), now)
    /\ UNCHANGED <<now, orders, storage, reqs, emails, refunds, gateway, sweep, cust, checkout>>

\* templateService.incrementDownloads(templateId), after the update of the
\* row; a failed update is caught and leaves the cache alone
IncrementDownloads ==
    /\ templates' = CacheDelete(templates)
    /\ UNCHANGED <<now, orders, storage, reqs, emails, refunds, gateway, sweep, cust, checkout, lookups>>

\* templateService.clearCache()
ClearCache ==
    /\ templates' = CacheClear(templates)
    /\ UNCHANGED <<now, orders, storage, reqs, emails, refunds, gateway, sweep, cust, checkout, lookups>>

\* AdminService.updateTemplate: prisma.template.update with a new price; the
\* cache of the TemplateService is not touched
UpdateTemplate ==
    /\ \E price \in Prices \ {templates.price} :
          templates' = [templates EXCEPT !.price = price]
    /\ UNCHANGED <<now, orders, storage, reqs, emails, refunds, gateway, sweep, cust, checkout, lookups>>

\* ---------------------------------------------------------------- checkout

\* A POST /api/payment/create-checkout-session request: the price that
\* createPendingOrder read, the order it created, the template that
\* createCheckoutSession got, and the unit_amount of the session at Stripe
IdleCheckout ==
    [ pc |-> "idle", price |-> 0, orderId |-> NoOrderId,
      template |-> NoTemplate, sessionAmount |-> 0 ]

\* createPendingOrder: prisma.template.findUnique reads the row
CheckoutRead(k) ==
    /\ checkout[k].pc = "idle"
    /\ \A j \in 1..(k - 1) : checkout[j].pc # "idle"
    /\ checkout' = [checkout EXCEPT ![k].pc = "create",
                                    ![k].price = templates.price]
    /\ UNCHANGED <<now, orders, storage, reqs, emails, refunds, gateway, sweep, cust, templates, lookups>>

\* createCheckoutSession up to its first await: getTemplateById answers a
\* valid cache key from the cache, and a null template throws
SessionEntry(req, t, time) ==
    IF IsCacheValid(t, time)
    THEN IF CacheGet(t) = NoTemplate
         THEN [req EXCEPT !.pc = "failed"]
         ELSE [req EXCEPT !.pc = "stripe", !.template = CacheGet(t)]
    ELSE [req EXCEPT !.pc = "find"]

\* createPendingOrder: prisma.order.create with the price that was read;
\* the route then calls createCheckoutSession for the new order
CheckoutCreate(k) ==
    /\ checkout[k].pc = "create"
    /\ orders' = Append(orders, NewOrder(checkout[k].price, CustomerEmail, now))
    /\ checkout' = [checkout EXCEPT ![k] =
                      SessionEntry([@ EXCEPT !.orderId = Len(orders) + 1],
                                   templates, now)]
    /\ UNCHANGED <<now, storage, reqs, emails, refunds, gateway, sweep, cust, templates, lookups>>

\* getTemplateById after findUnique: the row is cached and returned
CheckoutFind(k) ==
    /\ checkout[k].pc = "find"
    /\ checkout' = [checkout EXCEPT ![k].pc = "stripe",
                                    ![k].template = FindTemplate(templates)]
    /\ templates' = CacheSet(templates, FindTemplate(templates), now)
    /\ UNCHANGED <<now, orders, storage, reqs, emails, refunds, gateway, sweep, cust, lookups>>

\* stripe.checkout.sessions.create with unit_amount = template.price in
\* cents and metadata.orderId; a failure is answered 500 and leaves the
\* order as it was stored
CheckoutStripe(k) ==
    /\ checkout[k].pc = "stripe"
    /\ \/ checkout' = [checkout EXCEPT ![k].pc = "failed"]
       \/ checkout' = [checkout EXCEPT ![k].pc = "done",
                           ![k].sessionAmount = checkout[k].template[1].price]
    /\ UNCHANGED <<now, orders, storage, reqs, emails, refunds, gateway, sweep, cust, templates, lookups>>

\* The checkout sessions that exist at Stripe
Sessions ==
    {k \in CheckoutIds : checkout[k].pc = "done"}

\* What Stripe sends about the sessions it holds: the session completes
\* with the amount it was created with, or expires, or its payment fails
\* (the payment intent carries the metadata of the session)
CheckoutEvents(id) ==
    { [ id |-> id, type |-> EvCompleted, orderId |-> checkout[k].orderId,
        pi |-> 1, amountTotal |-> checkout[k].sessionAmount ] : k \in Sessions }
    \cup
    { [ id |-> id, type |-> type, orderId |-> checkout[k].orderId,
        pi |-> NoPayment, amountTotal |-> 0 ] :
          k \in Sessions, type \in {EvExpired, EvPaymentFailed} }

\* A delivery about a session arrives, signed by the provider, and runs to
\* its first await
CheckoutEventReceive(r) ==
    /\ reqs[r].pc = "idle"
    /\ \A q \in 1..(r - 1) : reqs[q].pc # "idle"
    /\ \E id \in DeliverableEventIds : \E ev \in CheckoutEvents(id) :
            /\ SameEventSameContent(r, ev)
            /\ reqs' = [reqs EXCEPT ![r] = WebhookEntry(Received(SigValid, ev))]
    /\ UNCHANGED <<now, orders, storage, emails, refunds, gateway, sweep, cust, templates, checkout, lookups>>

\* ------------------------------------------------------------ specification

Init ==
    /\ now = 0
    /\ orders = <<>>
    /\ storage = {}
    /\ reqs = [r \in ReqIds |-> IdleReq]
    /\ emails = {}
    /\ refunds = [a \in RefundIds |-> IdleRefund]
    /\ gateway = {}
    /\ sweep = IdleSweep
    /\ cust = [c \in CustIds |-> IdleCust]
    /\ templates = OnSale
    /\ checkout = [k \in CheckoutIds |-> IdleCheckout]
    /\ lookups = [l \in LookupIds |-> IdleLookup]

Next ==
    \/ Tick
    \/ CreatePendingOrder
    \/ \E r \in ReqIds : WebhookReceive(r)
    \/ \E r \in ReqIds : CompletedUpdateStatus(r)
    \/ \E r \in ReqIds : CompletedGeneratePdf(r)
    \/ \E r \in ReqIds : CompletedGenerateDocx(r)
    \/ \E r \in ReqIds : CompletedUpdateDocuments(r)
    \/ \E r \in ReqIds : CompletedSendEmail(r)
    \/ \E r \in ReqIds : ExpiredUpdateStatus(r)
    \/ \E a \in RefundIds : RefundRead(a)
    \/ \E a \in RefundIds : RefundGateway(a)
    \/ \E a \in RefundIds : RefundUpdate(a)
    \/ SweepScan
    \/ SweepDeletePdf
    \/ SweepDeleteDocx
    \/ SweepClear

Spec == Init /\ [][Next]_vars

\* The fulfillment of the sessions the application opened
Fulfillment ==
    \/ \E r \in ReqIds : SessionEventReceive(r)
    \/ \E r \in ReqIds : CompletedUpdateStatus(r)
    \/ \E r \in ReqIds : CompletedGeneratePdf(r)
    \/ \E r \in ReqIds : CompletedGenerateDocx(r)
    \/ \E r \in ReqIds : CompletedUpdateDocuments(r)
    \/ \E r \in ReqIds : CompletedSendEmail(r)
    \/ \E r \in ReqIds : ExpiredUpdateStatus(r)

\* Customer access to orders, next to fulfillment, refund and cleanup
NextAccess ==
    \/ Tick
    \/ CreatePendingOrder
    \/ Fulfillment
    \/ \E a \in RefundIds : RefundRead(a)
    \/ \E a \in RefundIds : RefundGateway(a)
    \/ \E a \in RefundIds : RefundUpdate(a)
    \/ SweepScan
    \/ SweepDeletePdf
    \/ SweepDeleteDocx
    \/ SweepClear
    \/ \E c \in CustIds : StatusRequest(c)
    \/ \E c \in CustIds : DownloadRead(c)
    \/ \E c \in CustIds : DownloadLinks(c)
    \/ \E c \in CustIds : ResendRead(c)
    \/ \E c \in CustIds : ResendLinks(c)
    \/ \E c \in CustIds : ResendSend(c)

SpecAccess == Init /\ [][NextAccess]_vars

\* Repeated and failing admin refunds, next to fulfillment
RefundCallIds == 1..MaxRefundCalls

InitRefund ==
    /\ now = 0
    /\ orders = <<>>
    /\ storage = {}
    /\ reqs = [r \in ReqIds |-> IdleReq]
    /\ emails = {}
    /\ refunds = [a \in RefundCallIds |-> IdleRefund]
    /\ gateway = {}
    /\ sweep = IdleSweep
    /\ cust = [c \in CustIds |-> IdleCust]
    /\ templates = OnSale
    /\ checkout = [k \in CheckoutIds |-> IdleCheckout]
    /\ lookups = [l \in LookupIds |-> IdleLookup]

NextRefund ==
    \/ Tick
    \/ CreatePendingOrder
    \/ Fulfillment
    \/ \E a \in RefundCallIds : RefundRead(a)
    \/ \E a \in RefundCallIds : RefundGateway(a)
    \/ \E a \in RefundCallIds : RefundUpdate(a)
    \/ \E a \in RefundCallIds : RefundUpdateFails(a)

SpecRefund == InitRefund /\ [][NextRefund]_vars

\* The steps of a webhook delivery after its arrival
Handlers ==
    \/ \E r \in ReqIds : CompletedUpdateStatus(r)
    \/ \E r \in ReqIds : CompletedGeneratePdf(r)
    \/ \E r \in ReqIds : CompletedGenerateDocx(r)
    \/ \E r \in ReqIds : CompletedUpdateDocuments(r)
    \/ \E r \in ReqIds : CompletedSendEmail(r)
    \/ \E r \in ReqIds : ExpiredUpdateStatus(r)

\* Checkout requests with the template service, and the events of the
\* sessions they opened
NextCheckout ==
    \/ Tick
    \/ \E k \in CheckoutIds : CheckoutRead(k)
    \/ \E k \in CheckoutIds : CheckoutCreate(k)
    \/ \E k \in CheckoutIds : CheckoutFind(k)
    \/ \E k \in CheckoutIds : CheckoutStripe(k)
    \/ \E l \in LookupIds : LookupRead(l)
    \/ \E l \in LookupIds : LookupFind(l)
    \/ UpdateTemplate
    \/ \E r \in ReqIds : CheckoutEventReceive(r)
    \/ Handlers

SpecCheckout == Init /\ [][NextCheckout]_vars

\* The TemplateService under the calls of its interface
NextTemplates ==
    \/ Tick
    \/ \E l \in LookupIds : LookupRead(l)
    \/ \E l \in LookupIds : LookupFind(l)
    \/ IncrementDownloads
    \/ ClearCache
    \/ UpdateTemplate

SpecTemplates == Init /\ [][NextTemplates]_vars

\* A delivery of the outcome of a session: Stripe reports of every session
\* it holds that it completed or that it expired
CheckoutOutcomeReceive(r) ==
    /\ CheckoutEventReceive(r)
    /\ reqs'[r].type \in {EvCompleted, EvExpired}

\* Checkout requests and the outcomes of the sessions they opened
NextCheckoutLive ==
    \/ Tick
    \/ \E k \in CheckoutIds : CheckoutRead(k)
    \/ \E k \in CheckoutIds : CheckoutCreate(k)
    \/ \E k \in CheckoutIds : CheckoutFind(k)
    \/ \E k \in CheckoutIds : CheckoutStripe(k)
    \/ \E r \in ReqIds : CheckoutOutcomeReceive(r)
    \/ Handlers

\* The event loop runs every request that was accepted to its end, Stripe
\* delivers the outcome of every session it holds, and every delivery that
\* arrived is handled to its end
SpecCheckoutLive ==
    /\ Init
    /\ [][NextCheckoutLive]_vars
    /\ WF_vars(\E k \in CheckoutIds : CheckoutCreate(k))
    /\ WF_vars(\E k \in CheckoutIds : CheckoutFind(k))
    /\ WF_vars(\E k \in CheckoutIds : CheckoutStripe(k))
    /\ WF_vars(\E r \in ReqIds : CheckoutOutcomeReceive(r))
    /\ WF_vars(Handlers)


\* ------------------------------------------------------------------ claims

HasArtifacts(order) == order.pdfUrl # NoUrl \/ order.docxUrl # NoUrl

\* The verified checkout.session.completed deliveries that name order o
CompletedFor(o) ==
    {r \in ReqIds : /\ reqs[r].pc # "idle"
                    /\ reqs[r].sig = SigValid
                    /\ reqs[r].type = EvCompleted
                    /\ reqs[r].orderId = o}

\* Some delivery has written status paid on order o
EverPaid(o) == \E r \in CompletedFor(o) : reqs[r].wasStatus # "none"

\* C1: in every reachable state, an order that has a recorded artifact
\* (pdfUrl or docxUrl) has status paid.
C1_ArtifactsOnlyWhenPaid ==
    \A o \in OrderIds : HasArtifacts(orders[o]) => orders[o].status = "paid"

\* C2: the deliveries of one verified event (one provider event id) perform
\* at most one pending->paid transition and invoke fulfillment at most once
\* between them: documents are generated once and the confirmation email is
\* sent once.
C2_SameEventFulfilledOnce ==
    \A e \in 1..MaxEvents :
        LET same == {r \in ReqIds : /\ reqs[r].pc # "idle"
                                    /\ reqs[r].sig = SigValid
                                    /\ reqs[r].type = EvCompleted
                                    /\ reqs[r].eventId = e}
        IN /\ Cardinality({r \in same : reqs[r].wasStatus = "pending"}) <= 1
           /\ Cardinality({r \in same : reqs[r].generated}) <= 1
           /\ Cardinality({r \in same : reqs[r].emailed}) <= 1

\* C3: of two payment_confirmed deliveries for the same order that are in
\* flight at the same time, one wins the pending->paid transition and only
\* that one runs the fulfillment side effect.
C3_ConcurrentDeliveriesOneFulfillment ==
    \A o \in OrderIds : \A r1, r2 \in CompletedFor(o) :
        (r1 # r2 /\ reqs[r1].pc # "done" /\ reqs[r2].pc # "done")
        => ~(reqs[r1].generated /\ reqs[r2].generated)

AllowedEdges ==
    {<<"pending", "paid">>, <<"pending", "failed">>, <<"paid", "refunded">>}

\* C4: the status of an order changes only along pending->paid,
\* pending->failed and paid->refunded.
C4_StatusMovesAlongEdges ==
    [][\A o \in OrderIds :
          orders'[o].status # orders[o].status
          => <<orders[o].status, orders'[o].status>> \in AllowedEdges]_vars

\* C5: every webhook request whose signature verifies is answered 200;
\* 400 is answered only when the signature is missing or invalid.
C5_VerifiedWebhookAnswered200 ==
    \A r \in ReqIds :
        reqs[r].pc = "done" => (reqs[r].response = 200 <=> reqs[r].sig = SigValid)

\* C6: a webhook request with a missing or invalid signature is answered 400
\* and is never processed: it writes no order, generates no document,
\* uploads nothing and sends no email.
C6_UnverifiedNeverProcessed ==
    \A r \in ReqIds :
        (reqs[r].pc # "idle" /\ reqs[r].sig # SigValid)
        => /\ reqs[r].pc = "done"
           /\ reqs[r].response = 400
           /\ reqs[r].wasStatus = "none"
           /\ ~reqs[r].generated
           /\ \A key \in storage : key[4][1] # r
           /\ \A mail \in emails : mail.by # <<"webhook", r>>

\* A forged checkout.session.completed for an existing pending order was
\* answered and the order is still pending
C6_Witness ==
    \E r \in ReqIds :
        /\ reqs[r].sig = SigInvalid
        /\ reqs[r].pc = "done"
        /\ reqs[r].orderId \in OrderIds
        /\ orders[reqs[r].orderId].status = "pending"

\* C7: once paymentReference (stripePaymentId) is non-empty no step changes
\* it.
C7_PaymentReferenceSetOnce ==
    [][\A o \in OrderIds :
          orders[o].stripePaymentId # NoPayment
          => orders'[o].stripePaymentId = orders[o].stripePaymentId]_vars

\* C8: the amount of an order is the price fixed at creation: no step
\* changes it.
C8_AmountNeverChanged ==
    [][\A o \in OrderIds : orders'[o].amount = orders[o].amount]_vars

\* C9: once an order has been paid, no step (a further payment_confirmed,
\* session_expired, refund, sweep) changes its downloadExpiry.
C9_DownloadExpiryFixedOncePaid ==
    [][\A o \in OrderIds :
          EverPaid(o) => orders'[o].downloadExpiry = orders[o].downloadExpiry]_vars

\* A second payment_confirmed was applied to an already paid order on a
\* later day than the order was created
C9_Witness ==
    \E o \in OrderIds : \E r1, r2 \in CompletedFor(o) :
        /\ reqs[r1].wasStatus = "pending"
        /\ reqs[r2].wasStatus = "paid"
        /\ now > orders[o].createdAt
        /\ orders[o].status = "paid"

\* C10: an order that has never been paid has no downloadExpiry, and the
\* pending->paid transition sets it to the time of the transition plus 7
\* days.
C10_DownloadExpirySetAtPayment ==
    [][\A o \in OrderIds :
          /\ ~EverPaid(o) => "downloadExpiry" \notin DOMAIN orders[o]
          /\ (orders[o].status = "pending" /\ orders'[o].status = "paid")
             => orders'[o].downloadExpiry = now + DownloadWindow]_vars

\* A request arrives at `route` in this step and runs to its first await
CustRead(c, route) ==
    cust[c].pc = "idle" /\ cust'[c].pc # "idle" /\ cust'[c].route = route

\* The request names an order of the table with the address of its customer
Owns(oid, email) ==
    oid \in OrderIds /\ orders[oid].customerEmail = email

\* What the caller sees of a finished request
ResponseOf(req) ==
    [ status |-> req.status, code |-> req.code, message |-> req.message,
      data |-> req.data ]

\* C11: the download endpoint checks in a fixed order: an unknown order or a
\* non-matching email gives 404 whatever the status; otherwise a status
\* other than paid gives 403, the same for pending, failed and refunded;
\* otherwise a window that has elapsed gives 410; otherwise missing
\* artifacts give 503; otherwise the request is answered 200 with freshly
\* signed URLs and expiresAt equal to the downloadExpiry of the order.
C11_DownloadChecksInOrder ==
    [][\A c \in CustIds :
        LET oid == cust'[c].orderId
            email == cust'[c].email IN
        /\ CustRead(c, RouteDownload) =>
             IF ~Owns(oid, email)
             THEN cust'[c].pc = "done" /\ cust'[c].status = 404
             ELSE IF orders[oid].status # "paid"
             THEN /\ cust'[c].pc = "done" /\ cust'[c].status = 403
                  /\ cust'[c].code = "ORDER_NOT_PAID"
             ELSE IF now > orders[oid].downloadExpiry
             THEN cust'[c].pc = "done" /\ cust'[c].status = 410
             ELSE IF orders[oid].pdfUrl = NoUrl \/ orders[oid].docxUrl = NoUrl
             THEN cust'[c].pc = "done" /\ cust'[c].status = 503
             ELSE cust'[c].pc = "links"
        /\ (/\ cust[c].pc = "links" /\ cust[c].route = RouteDownload
            /\ cust'[c].pc = "done") =>
             /\ cust'[c].status = 200
             /\ cust'[c].data[1].expiresAt = orders[oid].downloadExpiry
             /\ cust'[c].data[1].pdfUrl \notin {NoUrl, orders[oid].pdfUrl}
             /\ cust'[c].data[1].docxUrl \notin {NoUrl, orders[oid].docxUrl}]_vars

\* C12: for a paid order and the matching email, a download request that
\* arrives when now is not strictly before downloadExpiry, the instant
\* now = downloadExpiry included, is answered 410 whether or not artifacts
\* are recorded, and URLs are returned only while now < downloadExpiry.
C12_GoneFromExpiryOn ==
    [][\A c \in CustIds :
        LET oid == cust'[c].orderId IN
        (/\ CustRead(c, RouteDownload)
         /\ Owns(oid, cust'[c].email)
         /\ orders[oid].status = "paid"
         /\ now >= orders[oid].downloadExpiry)
        => cust'[c].pc = "done" /\ cust'[c].status = 410]_vars

\* The response of `route` to a request that names no order of the table
UnknownOrderResponse(route, email) ==
    ResponseOf(IF route = RouteStatus
               THEN StatusEntry(Arrived(route, UnknownOrderId, email),
                                GetOrderByIdAndEmail(UnknownOrderId, email))
               ELSE DownloadEntry(Arrived(route, UnknownOrderId, email),
                                  GetOrderByIdAndEmail(UnknownOrderId, email), now))

\* C13: on the order-status and the download endpoint, a request that names
\* an existing order with an address that is not its customer's gets the
\* response (status 404, error code, message) that a request for an order id
\* that does not exist gets, whatever the status of the order.
C13_WrongEmailAsUnknownOrder ==
    \A c \in CustIds :
        (/\ cust[c].pc = "done"
         /\ cust[c].route \in {RouteStatus, RouteDownload}
         /\ cust[c].orderId \in OrderIds
         /\ cust[c].email # orders[cust[c].orderId].customerEmail)
        => /\ cust[c].status = 404
           /\ ResponseOf(cust[c]) = UnknownOrderResponse(cust[c].route, cust[c].email)

C13_Witness ==
    \E c \in CustIds :
        /\ cust[c].pc = "done"
        /\ cust[c].route = RouteDownload
        /\ cust[c].orderId \in OrderIds
        /\ cust[c].email # orders[cust[c].orderId].customerEmail
        /\ orders[cust[c].orderId].status = "paid"
        /\ HasArtifacts(orders[cust[c].orderId])
        /\ cust[c].status = 404

\* A refund call arrives in this step and runs to its first await
RefundCalled(a) ==
    refunds[a].pc = "idle" /\ refunds'[a].pc # "idle"

\* C14: an admin refund of a pending or a failed order is rejected: the
\* gateway is not called and no field of any order changes, then or later
\* on behalf of that call.
C14_RefundOfUnpaidRejected ==
    [][\A a \in DOMAIN refunds :
        LET oid == refunds'[a].orderId IN
        /\ (/\ RefundCalled(a)
            /\ oid \in OrderIds
            /\ orders[oid].status \in {"pending", "failed"})
           => /\ refunds'[a].pc = "done"
              /\ ~refunds'[a].success
              /\ gateway' = gateway
              /\ orders' = orders
        /\ refunds[a].pc = "done" => refunds'[a] = refunds[a]]_vars

C14_Witness ==
    \E a \in DOMAIN refunds :
        /\ refunds[a].pc = "done"
        /\ refunds[a].orderId \in OrderIds
        /\ refunds[a].message = "Only paid orders can be refunded"
        /\ orders[refunds[a].orderId].status = "failed"
        /\ gateway = {}

\* C15: a refund of a paid order moves it to refunded, and a refund call
\* repeated after that success returns the result of the first call (the
\* same refundId and amount) without a second call of the gateway.
C15_RepeatedRefundReturnsOriginal ==
    [][\A a, b \in DOMAIN refunds :
        LET oid == refunds'[a].orderId IN
        /\ (/\ refunds[a].pc = "update"
            /\ refunds'[a].pc = "done"
            /\ refunds'[a].success)
           => orders'[refunds[a].orderId].status = "refunded"
        /\ (/\ RefundCalled(a)
            /\ oid \in OrderIds
            /\ orders[oid].status = "refunded"
            /\ refunds[b].pc = "done"
            /\ refunds[b].success
            /\ refunds[b].orderId = oid)
           => /\ refunds'[a].pc = "done"
              /\ refunds'[a].success
              /\ refunds'[a].refundId = refunds[b].refundId
              /\ refunds'[a].refundAmount = refunds[b].refundAmount
              /\ gateway' = gateway
              /\ orders' = orders]_vars

\* C16: when the gateway refuses the refund of a paid order, the call
\* returns the failure and changes no field of the order, and an order
\* becomes refunded only by a call whose refund the gateway has created.
C16_GatewayFailureLeavesOrderPaid ==
    [][/\ \A a \in DOMAIN refunds :
            /\ (refunds[a].pc = "gateway" /\ refunds'[a].pc = "done")
               => /\ ~refunds'[a].success
                  /\ orders' = orders
                  /\ gateway' = gateway
            /\ (refunds[a].pc = "done" /\ ~refunds[a].success)
               => refunds'[a] = refunds[a]
       /\ \A o \in OrderIds :
            (orders[o].status # "refunded" /\ orders'[o].status = "refunded")
            => \E g \in gateway :
                  g.orderId = o /\ refunds[g.refundId].pc = "update"]_vars

C16_Witness ==
    \E a \in DOMAIN refunds :
        /\ refunds[a].pc = "done"
        /\ refunds[a].message = "gateway error"
        /\ orders[refunds[a].orderId].status = "paid"
        /\ gateway = {}

\* C19: when a refund call on a paid order returns, the order is refunded
\* exactly if the gateway has created the refund of that call, whichever
\* step after the gateway call failed.
C19_RefundedIffGatewaySucceeded ==
    [][\A a \in DOMAIN refunds :
        (refunds[a].pc \in {"gateway", "update"} /\ refunds'[a].pc = "done")
        => (orders'[refunds[a].orderId].status = "refunded"
              <=> \E g \in gateway' : g.refundId = a)]_vars

\* C17: once an order is refunded, a download or resend-email request that
\* arrives for it afterwards never returns or sends a signed URL, whatever
\* webhook deliveries, fulfillment steps, sweeps or requests came between.
C17_NoAccessAfterRefund ==
    \A c \in CustIds :
        (cust[c].refunded /\ cust[c].orderId \in OrderIds)
        => /\ ~(cust[c].route = RouteDownload /\ cust[c].status = 200)
           /\ ~\E m \in emails : m.by = <<"resend", c>>

\* C18: the webhook response to a payment confirmation is sent after the
\* order has been moved to paid and before document rendering, upload and
\* notification run: a delivery that is at one of those steps has been
\* answered.
C18_AnsweredBeforeFulfillment ==
    \A r \in ReqIds :
        (reqs[r].sig = SigValid /\ reqs[r].type = EvCompleted)
        => /\ reqs[r].response = 200 => reqs[r].wasStatus # "none"
           /\ reqs[r].pc \in {"generatePdf", "generateDocx", "updateDocuments",
                               "sendEmail"}
              => reqs[r].response # 0

\* The keys under which fulfillment uploaded artifacts of order o
UploadedKeys(o) ==
    {reqs[r].pdf[1].key : r \in {q \in ReqIds : reqs[q].orderId = o
                                             /\ reqs[q].pdf # NoUrl}}
    \cup
    {reqs[r].docx[1].key : r \in {q \in ReqIds : reqs[q].orderId = o
                                              /\ reqs[q].docx # NoUrl}}

\* C20: the key that a download signs and the key that the cleanup deletes
\* for an artifact of an order are the key under which fulfillment uploaded
\* that artifact.
C20_SignedAndDeletedKeyIsUploadKey ==
    /\ [](\A c \in CustIds :
            (cust[c].route = RouteDownload /\ cust[c].status = 200)
            => /\ cust[c].data[1].pdfUrl[1].key \in UploadedKeys(cust[c].orderId)
               /\ cust[c].data[1].docxUrl[1].key \in UploadedKeys(cust[c].orderId))
    /\ [][/\ (/\ sweep.pc = "pdf" /\ sweep'.pc = "docx"
              /\ Head(sweep.rows).pdfUrl # NoUrl)
             => Head(sweep.rows).pdfUrl[1].key \notin storage'
          /\ (/\ sweep.pc = "docx" /\ sweep'.pc = "clear"
              /\ Head(sweep.rows).docxUrl # NoUrl)
             => Head(sweep.rows).docxUrl[1].key \notin storage']_vars

\* C22: no customer-facing path, the download endpoint and the resend-email
\* endpoint alike, signs a download URL for an order at a time at or after
\* its downloadExpiry.
C22_NoUrlFromExpiryOn ==
    [][\A c \in CustIds :
        (cust[c].links = <<>> /\ cust'[c].links # <<>>)
        => now < orders[cust'[c].orderId].downloadExpiry]_vars

\* The delivery failed in generateDocuments: it ended before both uploads
FailedInGeneration(r) ==
    /\ reqs[r].pc = "done"
    /\ reqs[r].generated
    /\ reqs[r].docx = NoUrl

\* C23: when document rendering or an upload fails during fulfillment, the
\* failing step changes no field of the order (it stays paid, with its
\* payment reference and downloadExpiry), and that delivery records no
\* artifact on the order, then or later.
C23_GenerationFailureKeepsOrder ==
    [][\A r \in ReqIds :
        /\ (reqs[r].pc \in {"generatePdf", "generateDocx"} /\ reqs'[r].pc = "done")
           => /\ orders' = orders
              /\ emails' = emails
        /\ FailedInGeneration(r)
           => /\ reqs'[r] = reqs[r]
              /\ \A o \in OrderIds :
                    reqs[r].pdf # NoUrl => orders[o].pdfUrl # reqs[r].pdf]_vars

C23_Witness ==
    \E r \in ReqIds :
        /\ FailedInGeneration(r)
        /\ reqs[r].wasStatus = "pending"
        /\ reqs[r].orderId \in OrderIds
        /\ LET order == orders[reqs[r].orderId] IN
           /\ order.status = "paid"
           /\ ~HasArtifacts(order)
           /\ order.stripePaymentId = reqs[r].pi
           /\ order.downloadExpiry = order.createdAt + DownloadWindow

\* C24: when the notification fails after the artifacts were stored and
\* recorded, the failing step changes neither the status nor the recorded
\* artifacts of the order, nor the stored objects: nothing is rolled back.
C24_NotificationFailureKeepsOrder ==
    [][\A r \in ReqIds :
        (reqs[r].pc = "sendEmail" /\ reqs'[r].pc = "done" /\ ~reqs'[r].emailed)
        => /\ orders' = orders
           /\ storage' = storage]_vars

C24_Witness ==
    \E r \in ReqIds :
        /\ reqs[r].pc = "done"
        /\ reqs[r].docx # NoUrl
        /\ ~reqs[r].emailed
        /\ reqs[r].response = 400
        /\ LET order == orders[reqs[r].orderId] IN
           /\ order.status = "paid"
           /\ order.pdfUrl = reqs[r].pdf
           /\ order.docxUrl = reqs[r].docx

\* C25: the cleanup acts only on orders that are paid with downloadExpiry <
\* now: when it writes such an order the artifacts have been deleted from
\* the bucket and the write clears the two pointers and nothing else;
\* every other order is left as it is.
C25_SweepOnlyPaidExpired ==
    [][(sweep.pc = "clear" /\ sweep'.pc # "clear")
       => LET o == Head(sweep.rows).id IN
          /\ orders[o].status = "paid"
          /\ orders[o].downloadExpiry < now
          /\ orders' = [orders EXCEPT ![o] = ClearDocuments(@)]
          /\ \A url \in {orders[o].pdfUrl, orders[o].docxUrl} \ {NoUrl} :
                url[1].key \notin storage']_vars

\* C26: the cleanup clears a pointer of an order only when the object it
\* points at has been deleted: no step takes a recorded URL off an order
\* while the object uploaded under it is still in the bucket.
C26_PointersClearedAfterDeletion ==
    [][\A o \in OrderIds :
        /\ (orders[o].pdfUrl # NoUrl /\ orders'[o].pdfUrl = NoUrl)
           => orders[o].pdfUrl[1].key \notin storage'
        /\ (orders[o].docxUrl # NoUrl /\ orders'[o].docxUrl = NoUrl)
           => orders[o].docxUrl[1].key \notin storage']_vars

\* The refund calls for order o that have called the gateway
Invoked(o) ==
    {a \in DOMAIN refunds :
        /\ refunds[a].orderId = o
        /\ \/ refunds[a].pc = "update"
           \/ /\ refunds[a].pc = "done"
              /\ \/ refunds[a].success
                 \/ refunds[a].message \in {"gateway error",
                                            "Failed to process refund"}}

\* C28: however two or more refund requests for the same paid order
\* interleave, the gateway refund is invoked at most once for the order and
\* at most one request reports success.
C28_OneRefundPerOrder ==
    \A o \in OrderIds :
        /\ Cardinality(Invoked(o)) <= 1
        /\ Cardinality({a \in DOMAIN refunds :
              refunds[a].orderId = o /\ refunds[a].success}) <= 1

\* C21: the amount stored on an order when it was created equals the
\* amount of the checkout session created for that order, which is the
\* amount the provider reports in the completed event, however checkout
\* requests interleave with price updates and whatever the cache holds.
C21_OrderAmountIsSessionAmount ==
    \A k \in Sessions :
        /\ checkout[k].sessionAmount = checkout[k].price
        /\ \A ev \in CheckoutEvents(1) :
              (ev.type = EvCompleted /\ ev.orderId = checkout[k].orderId)
              => ev.amountTotal = checkout[k].price

\* C27: a verified payment_intent.payment_failed event for a pending order
\* moves the order to failed and sends the customer a failure notification.
C27_PaymentFailedFailsOrder ==
    [][\A r \in ReqIds :
        LET oid == reqs'[r].orderId IN
        (/\ reqs[r].pc = "idle"
         /\ reqs'[r].pc = "done"
         /\ reqs'[r].sig = SigValid
         /\ reqs'[r].type = EvPaymentFailed
         /\ oid \in OrderIds
         /\ orders[oid].status = "pending")
        => /\ orders'[oid].status = "failed"
           /\ \E m \in emails' \ emails : m.orderId = oid]_vars

\* C30: getTemplateById returns the template whenever its row exists, after
\* any sequence of getTemplateById, incrementDownloads and clearCache
\* calls: a cache key is valid only while the cache holds a value for it.
C30_ValidKeyHasValue ==
    /\ \A l \in LookupIds : lookups[l].pc = "done" => lookups[l].result # NoTemplate
    /\ IsCacheValid(templates, now) => CacheGet(templates) # NoTemplate

\* C29: no order stays pending forever: when Stripe delivers the outcome of
\* every session that was created and every delivery is handled, an order
\* that is pending, the one whose checkout-session creation failed after it
\* was stored included, is paid or failed at some later time
C29_NoOrderPendingForever ==
    \A o \in 1..MaxOrders :
        (o \in OrderIds /\ orders[o].status = "pending")
            ~> (o \in OrderIds /\ orders[o].status \in {"paid", "failed"})

====
